---- MODULE Spec2Model ----
(***************************************************************************)
(* Model of the document fraud-detection engine of                         *)
(* src/document_comparison.py: the two field parsers, the SQLite document  *)
(* store, the similarity / risk scoring and the ingestion pipeline         *)
(* process_document.                                                       *)
(*                                                                         *)
(* Raw text is a sequence of lines (tokens).  A token records which of the *)
(* parsers' regular expressions the line can match and the text the        *)
(* pattern's group captures; lines are assumed newline-terminated and no   *)
(* pattern spans two lines.  Money is counted in cents; where totals are   *)
(* subtracted and divided they are doubles m * 2^e of 53 significant bits. *)
(* Similarity ratios are compared by cross-multiplication (thresholds are  *)
(* hundredths).                                                            *)
(***************************************************************************)
EXTENDS Integers, Sequences, FiniteSets, TLC

VARIABLES
    config,         \* SimilarityConfig of the detector (self.config)
    db,             \* committed rows of table documents, in commit order
    sqlite_seq,     \* AUTOINCREMENT high-water mark (table sqlite_sequence)
    pending,        \* per call: the row INSERTed but not yet committed
    log,            \* history: <<call, row>> of every committed insert
    pc,             \* per call: position inside process_document
    raw_text,       \* per call: local raw_text
    doc_data,       \* per call: local doc_data
    doc_id,         \* per call: local doc_id (0 before insert returned)
    existing_docs,  \* per call: local existing_docs
    result,         \* per call: returned dictionary, or the raised error
    fetched_at,     \* history: number of commits when this call fetched
    call,           \* direct call of a pure function: its arguments
    ret             \* direct call of a pure function: its result

vars == <<config, db, sqlite_seq, pending, log, pc, raw_text, doc_data,
          doc_id, existing_docs, result, fetched_at, call, ret>>

pipeVars == <<config, db, sqlite_seq, pending, log, pc, raw_text,
              doc_data, doc_id, existing_docs, result, fetched_at>>

-----------------------------------------------------------------------------
(* Bounds *)

\* longest raw text (in lines) given directly to parse_document
MaxTextLen == 2

\* number of process_document calls, which may overlap
NumCalls == 2

\* longest comparison set given directly to detect_fraud_indicators
MaxExisting == 2

\* longest flag list given directly to _assess_overall_risk
MaxFlags == 2

-----------------------------------------------------------------------------
(* Generic helpers *)

Range(s) == {s[i] : i \in 1..Len(s)}

SeqsUpTo(S, n) == UNION {[1..k -> S] : k \in 0..n}

Max2(a, b) == IF a >= b THEN a ELSE b

Abs(x) == IF x < 0 THEN -x ELSE x

\* None of Python; every optional value is a record with a tag
None == "None"

-----------------------------------------------------------------------------
(* Character-level conversions: str.lower, str.strip, int(), float() *)

\* str.lower() on the strings of the vocabulary
LowerStr(s) ==
    CASE s = "ESTIMATE" -> "estimate"
      [] s = "Agreement" -> "agreement"
      [] s = "ACME PTE LTD" -> "acme pte ltd"
      [] s = "BETA PTE LTD" -> "beta pte ltd"
      [] s = "Lian Soon Construction Pte Ltd" -> "lian soon construction pte ltd"
      [] s = "March" -> "march"
      [] s = "April" -> "april"
      [] s = "February" -> "february"
      [] s = "Foo" -> "foo"
      [] s = "John Tan" -> "john tan"
      [] s = "JOHN TAN" -> "john tan"
      [] s = " John Tan " -> " john tan "
      [] s = "Mary Lim" -> "mary lim"
      [] s = "QT-001" -> "qt-001"
      [] s = "QT-002" -> "qt-002"
      [] s = "Steel Beam" -> "steel beam"
      [] s = "Cement" -> "cement"
      [] s = "Acme Builders LTD" -> "acme builders ltd"
      [] s = "Lian Soon LTD" -> "lian soon ltd"
      [] s = "12-Mar-2023" -> "12-mar-2023"
      [] s = "C-77" -> "c-77"
      [] OTHER -> s

\* str.strip() on the strings of the vocabulary
StripStr(s) ==
    CASE s = " John Tan " -> "John Tan"
      [] s = " " -> ""
      [] OTHER -> s

IsDigit(c) == c \in {"0", "1", "2", "3", "4", "5", "6", "7", "8", "9"}

DigitVal(c) ==
    CASE c = "0" -> 0 [] c = "1" -> 1 [] c = "2" -> 2 [] c = "3" -> 3
      [] c = "4" -> 4 [] c = "5" -> 5 [] c = "6" -> 6 [] c = "7" -> 7
      [] c = "8" -> 8 [] c = "9" -> 9

\* value of a string of decimal digits (0 for the empty string)
RECURSIVE DigitsValue(_)
DigitsValue(t) ==
    IF t = <<>> THEN 0
    ELSE 10 * DigitsValue(SubSeq(t, 1, Len(t) - 1)) + DigitVal(t[Len(t)])

RECURSIVE Pow10(_)
Pow10(n) == IF n = 0 THEN 1 ELSE 10 * Pow10(n - 1)

\* text.replace(",", "")
StripCommas(t) == SelectSeq(t, LAMBDA c : c # ",")

CountDots(t) == Len(SelectSeq(t, LAMBDA c : c = "."))

RECURSIVE StripTrailingZeros(_)
StripTrailingZeros(t) ==
    IF t # <<>> /\ t[Len(t)] = "0"
    THEN StripTrailingZeros(SubSeq(t, 1, Len(t) - 1))
    ELSE t

\* position of the first "." of t, Len(t)+1 when there is none
RECURSIVE DotPos(_, _)
DotPos(t, i) ==
    IF i > Len(t) THEN i ELSE IF t[i] = "." THEN i ELSE DotPos(t, i + 1)

\* float(t) for a text of digits and dots (the item pattern's [\d.]+ groups):
\* ValueError when t holds more than one dot or no digit, else the decimal
\* value as a fraction num/den in lowest decimal form
FloatOfText(t) ==
    IF CountDots(t) > 1 \/ ~(\E i \in 1..Len(t) : IsDigit(t[i]))
    THEN [ok |-> FALSE, num |-> 0, den |-> 1]
    ELSE LET dot  == DotPos(t, 1)
             whole == SubSeq(t, 1, dot - 1)
             frac  == StripTrailingZeros(SubSeq(t, dot + 1, Len(t)))
         IN  [ok |-> TRUE,
              num |-> DigitsValue(whole) * Pow10(Len(frac)) + DigitsValue(frac),
              den |-> Pow10(Len(frac))]

-----------------------------------------------------------------------------
(* Calendar: datetime.strptime / strftime *)

\* %B: full month name, case-insensitive; 0 when the word is no month
MonthNumber(word) ==
    LET w == LowerStr(word) IN
    CASE w = "january" -> 1 [] w = "february" -> 2 [] w = "march" -> 3
      [] w = "april" -> 4 [] w = "may" -> 5 [] w = "june" -> 6
      [] w = "july" -> 7 [] w = "august" -> 8 [] w = "september" -> 9
      [] w = "october" -> 10 [] w = "november" -> 11 [] w = "december" -> 12
      [] OTHER -> 0

IsLeap(y) == (y % 4 = 0 /\ y % 100 # 0) \/ y % 400 = 0

DaysInMonth(y, m) ==
    IF m = 2 THEN (IF IsLeap(y) THEN 29 ELSE 28)
    ELSE IF m \in {4, 6, 9, 11} THEN 30 ELSE 31

RECURSIVE DaysBeforeMonth(_, _)
DaysBeforeMonth(y, m) ==
    IF m <= 1 THEN 0 ELSE DaysBeforeMonth(y, m - 1) + DaysInMonth(y, m - 1)

\* days from 1 January 2000 to y-m-d (years 2000..2099, the pattern's 20\d{2})
RECURSIVE DaysBeforeYear(_)
DaysBeforeYear(y) ==
    IF y <= 2000 THEN 0
    ELSE DaysBeforeYear(y - 1) + (IF IsLeap(y - 1) THEN 366 ELSE 365)

Ordinal(y, m, d) == DaysBeforeYear(y) + DaysBeforeMonth(y, m) + d

\* a date field of DocumentData / of a row: None, a canonical YYYY-MM-DD
\* string ("iso", with its numbers), a string of the same numbers that is
\* not canonical ("loose") or any other string ("raw")
NoDate == [fmt |-> "none", y |-> 0, m |-> 0, d |-> 0, raw |-> ""]
IsoDate(y, m, d) == [fmt |-> "iso", y |-> y, m |-> m, d |-> d, raw |-> ""]
RawDate(s) == [fmt |-> "raw", y |-> 0, m |-> 0, d |-> 0, raw |-> s]
\* a string such as "2023-3-5": the numbers of a date, month or day written
\* with one digit
LooseDate(y, m, d) == [fmt |-> "loose", y |-> y, m |-> m, d |-> d, raw |-> ""]

\* datetime.strptime("<day> <month> <year>", "%d %B %Y").strftime("%Y-%m-%d"):
\* ValueError for a word that is no month name and for a day the month
\* does not have
StrptimeLong(day, month, year) ==
    LET m == MonthNumber(month) IN
    IF m = 0 \/ day < 1 \/ day > DaysInMonth(year, m)
    THEN [ok |-> FALSE, date |-> NoDate]
    ELSE [ok |-> TRUE, date |-> IsoDate(year, m, day)]

-----------------------------------------------------------------------------
(* Vocabulary of text lines *)

Tok(k, s, n, m, t, u) == [k |-> k, s |-> s, n |-> n, m |-> m, t |-> t, u |-> u]

\* a free word: "ESTIMATE" / "estimate" (quotation keyword), "Agreement"
\* (contract keyword), "hello" (no keyword)
Word(s) == Tok("word", s, 0, 0, <<>>, <<>>)
\* "<NAME> PTE LTD": the quotation vendor pattern
VendorLine(s) == Tok("vendor", s, 0, 0, <<>>, <<>>)
\* "Lian Soon Construction Pte Ltd": the quotation client pattern
ClientLine == Tok("client", "Lian Soon Construction Pte Ltd", 0, 0, <<>>, <<>>)
\* "<day> <word> <year>": the quotation date pattern
LongDateLine(day, word, year) == Tok("longdate", word, day, year, <<>>, <<>>)
\* "Singapore <6 digits>": the postal code pattern of both parsers
PostalLine(digits) == Tok("postal", "", 0, 0, digits, <<>>)
\* "Name: <s>": the quotation signatory pattern
NameLine(s) == Tok("name", s, 0, 0, <<>>, <<>>)
\* "TOTAL AMT: $<whole>.<cents>": the quotation total pattern
TotalLine(whole, cents) == Tok("total", "", 0, cents, whole, <<>>)
\* "Ref: <s>": the quotation reference pattern
RefLine(s) == Tok("ref", s, 0, 0, <<>>, <<>>)
\* "<n> <name> <n2> nos $<rate> $<total>": the quotation item pattern
ItemLine(n, name, n2, rate, total) == Tok("item", name, n, n2, rate, total)
\* "Contractor: <s>": the contract vendor pattern
ContractorLine(s) == Tok("contractor", s, 0, 0, <<>>, <<>>)
\* "Client: <s>": the contract client pattern
CClientLine(s) == Tok("cclient", s, 0, 0, <<>>, <<>>)
\* "Date: <s>": the contract date pattern
CDateLine(s) == Tok("cdate", s, 0, 0, <<>>, <<>>)
\* "Signed: <s>": the contract signatory pattern
SignedLine(s) == Tok("signed", s, 0, 0, <<>>, <<>>)
\* "Contract Value: $<whole>.<cents>": the contract total pattern
CValueLine(whole, cents) == Tok("cvalue", "", 0, cents, whole, <<>>)
\* "Contract #: <s>": the contract number pattern
CNumLine(s) == Tok("cnum", s, 0, 0, <<>>, <<>>)

D10000 == <<"1", "0", ",", "0", "0", "0">>
D10500 == <<"1", "0", ",", "5", "0", "0">>
D5000 == <<"5", "0", "0", "0">>
P123456 == <<"1", "2", "3", "4", "5", "6">>
P123457 == <<"1", "2", "3", "4", "5", "7">>
P654321 == <<"6", "5", "4", "3", "2", "1">>
R12_50 == <<"1", "2", ".", "5", "0">>
R1_2_3 == <<"1", ".", "2", ".", "3">>
R60 == <<"6", "0">>

Tokens ==
    { Word("ESTIMATE"), Word("estimate"), Word("Agreement"), Word("hello"),
      VendorLine("ACME PTE LTD"), VendorLine("BETA PTE LTD"),
      ClientLine,
      LongDateLine(12, "March", 2023), LongDateLine(14, "march", 2023),
      LongDateLine(31, "April", 2023), LongDateLine(12, "Foo", 2023),
      PostalLine(P123456), PostalLine(P123457),
      NameLine("John Tan"), NameLine(" John Tan "), NameLine("Mary Lim"),
      TotalLine(D10000, 0), TotalLine(D10500, 0), TotalLine(D5000, 0),
      RefLine("QT-001"), RefLine("QT-002"),
      ItemLine(5, "Steel Beam", 5, R12_50, R60),
      ItemLine(5, "steel beam", 5, R12_50, R60),
      ItemLine(2, "Cement", 2, R1_2_3, R60),
      ContractorLine("Acme Builders LTD"),
      CClientLine("Lian Soon LTD"),
      CDateLine("12/03/2023"), CDateLine("12-Mar-2023"),
      SignedLine("John Tan"),
      CValueLine(D5000, 0),
      CNumLine("C-77") }

\* the line as text.lower() leaves it
LowerTok(tok) == [tok EXCEPT !.s = LowerStr(tok.s)]

LowerText(text) == [i \in 1..Len(text) |-> LowerTok(text[i])]

\* the words a line contains, for the keyword test of detect_document_type
HasQuotationWord(tok) ==
    tok.k = "word" /\ LowerStr(tok.s) \in {"quotation", "quote", "estimate"}

HasContractWord(tok) ==
    \/ tok.k = "word" /\ LowerStr(tok.s) \in {"contract", "agreement", "terms"}
    \/ tok.k \in {"contractor", "cvalue", "cnum"}

\* re.search: the first line of text that satisfies Match, 0 when none does
RECURSIVE Search(_, _, _)
Search(text, Match(_), i) ==
    IF i > Len(text) THEN 0
    ELSE IF Match(text[i]) THEN i ELSE Search(text, Match, i + 1)

-----------------------------------------------------------------------------
(* DocumentData and the two parsers *)

DocumentData(vendor, client, date, postal_code, items, total, signatory,
             document_type, reference_number) ==
    [vendor |-> vendor, client |-> client, date |-> date,
     postal_code |-> postal_code, items |-> items, total |-> total,
     signatory |-> signatory, document_type |-> document_type,
     reference_number |-> reference_number,
     \* __post_init__: None becomes a fresh empty mapping
     additional_fields |-> <<>>]

\* placeholder for the local doc_data of a call that has none
NoDoc == DocumentData("", "", NoDate, <<>>, <<>>, 0, "", "", "")

Parsed(doc) == [ok |-> TRUE, err |-> "", doc |-> doc]
Raised(err) == [ok |-> FALSE, err |-> err, doc |-> NoDoc]

\* float(total.group(1)) of the total patterns, on text.replace(",", ""):
\* the group is digits "." two digits, so float() always succeeds
TotalValue(tok) == DigitsValue(StripCommas(tok.t)) * 100 + tok.m

\* one predicate per pattern: the lines the pattern matches
MatchesQVendor(tok) == tok.k = "vendor"
MatchesQClient(tok) == tok.k = "client"
MatchesQDate(tok) == tok.k = "longdate"
MatchesPostal(tok) == tok.k = "postal"
MatchesQSignatory(tok) == tok.k = "name"
MatchesQTotal(tok) == tok.k = "total"
MatchesQRef(tok) == tok.k = "ref"
MatchesItem(tok) == tok.k = "item"
MatchesCVendor(tok) == tok.k = "contractor"
MatchesCClient(tok) == tok.k = "cclient"
MatchesCDate(tok) == tok.k = "cdate"
MatchesCSignatory(tok) == tok.k = "signed"
MatchesCTotal(tok) == tok.k = "cvalue"

\* the dictionary appended for one matched item line; ok = FALSE when
\* float(rate) or float(total_item) raises ValueError
ItemOf(tok) ==
    LET rate == FloatOfText(tok.t)
        line_total == FloatOfText(tok.u)
    IN  [ok |-> rate.ok /\ line_total.ok,
         item |-> [name |-> StripStr(tok.s), qty |-> tok.n,
                   rate |-> [num |-> rate.num, den |-> rate.den],
                   total |-> [num |-> line_total.num, den |-> line_total.den]]]

\* re.findall of the item pattern, in document order
ItemLines(text) == SelectSeq(text, MatchesItem)

QuotationUnknownVendor == "Unknown Vendor"
ContractUnknownVendor == "Unknown Contractor"
UnknownClient == "Unknown Client"

QuotationParser_parse(text) ==
    LET vendor == Search(text, MatchesQVendor, 1)
        client == Search(text, MatchesQClient, 1)
        date == Search(text, MatchesQDate, 1)
        postal_code == Search(text, MatchesPostal, 1)
        signatory == Search(text, MatchesQSignatory, 1)
        total == Search(text, MatchesQTotal, 1)
        ref_number == Search(text, MatchesQRef, 1)
        item_lines == ItemLines(text)
        converted == [i \in 1..Len(item_lines) |-> ItemOf(item_lines[i])]
        parsed_date == IF date = 0 THEN [ok |-> TRUE, date |-> NoDate]
                       ELSE StrptimeLong(text[date].n, text[date].s, text[date].m)
    IN  IF \E i \in 1..Len(converted) : ~converted[i].ok
        THEN Raised("ValueError")
        ELSE IF ~parsed_date.ok
        THEN Raised("ValueError")
        ELSE Parsed(DocumentData(
                IF vendor # 0 THEN text[vendor].s ELSE QuotationUnknownVendor,
                IF client # 0 THEN text[client].s ELSE UnknownClient,
                parsed_date.date,
                IF postal_code # 0 THEN text[postal_code].t ELSE <<>>,
                [i \in 1..Len(converted) |-> converted[i].item],
                IF total # 0 THEN TotalValue(text[total]) ELSE 0,
                IF signatory # 0 THEN StripStr(text[signatory].s) ELSE "",
                "quotation",
                IF ref_number # 0 THEN text[ref_number].s ELSE ""))

\* what (?i)contract[\s#]*:?\s*([A-Z0-9-]+) captures on a line holding the
\* word "contract": the letters that follow it
ContractNumberGroup(tok) ==
    CASE tok.k = "contractor" -> "or"
      [] tok.k = "cvalue" -> "Value"
      [] tok.k = "cnum" -> tok.s
      [] tok.k = "word" -> ""

MatchesContractNumber(tok) ==
    tok.k \in {"contractor", "cvalue", "cnum"}

ContractParser_parse(text) ==
    LET vendor == Search(text, MatchesCVendor, 1)
        client == Search(text, MatchesCClient, 1)
        date == Search(text, MatchesCDate, 1)
        postal_code == Search(text, MatchesPostal, 1)
        signatory == Search(text, MatchesCSignatory, 1)
        total == Search(text, MatchesCTotal, 1)
        contract_number == Search(text, MatchesContractNumber, 1)
    IN  Parsed(DocumentData(
            IF vendor # 0 THEN text[vendor].s ELSE ContractUnknownVendor,
            IF client # 0 THEN text[client].s ELSE UnknownClient,
            IF date # 0 THEN RawDate(text[date].s) ELSE NoDate,
            IF postal_code # 0 THEN text[postal_code].t ELSE <<>>,
            <<>>,
            IF total # 0 THEN TotalValue(text[total]) ELSE 0,
            IF signatory # 0 THEN StripStr(text[signatory].s) ELSE "",
            "contract",
            IF contract_number # 0 THEN ContractNumberGroup(text[contract_number])
            ELSE ""))

\* self.parsers: the registered document types
RegisteredTypes == {"quotation", "contract"}

detect_document_type(text) ==
    IF \E i \in 1..Len(text) : HasQuotationWord(text[i]) THEN "quotation"
    ELSE IF \E i \in 1..Len(text) : HasContractWord(text[i]) THEN "contract"
    ELSE "quotation"

\* an unregistered type is parsed by the quotation parser
parse_document_Fallback(text, document_type) ==
    IF document_type = "contract" THEN ContractParser_parse(text)
    ELSE QuotationParser_parse(text)

parse_document(text, document_type) ==
    LET dtype == IF document_type = None THEN detect_document_type(text)
                 ELSE document_type
    IN  IF dtype \notin RegisteredTypes THEN Raised("ValueError: no parser")
        ELSE IF dtype = "quotation" THEN QuotationParser_parse(text)
        ELSE ContractParser_parse(text)

\* the document types a caller may declare: none, the registered ones and
\* one that has no parser
DeclaredTypes == {None, "quotation", "contract", "invoice"}

-----------------------------------------------------------------------------
(* SimilarityConfig: thresholds in hundredths *)

DefaultConfig ==
    [address_threshold |-> 80, items_threshold |-> 80,
     price_difference_threshold |-> 10, days_threshold |-> 3,
     text_similarity_threshold |-> 90, signatory_exact_match |-> TRUE]

\* the configurations a detector is constructed with in this model
Configs ==
    { DefaultConfig,
      [DefaultConfig EXCEPT !.text_similarity_threshold = 100],
      [DefaultConfig EXCEPT !.days_threshold = 0],
      [DefaultConfig EXCEPT !.signatory_exact_match = FALSE] }

-----------------------------------------------------------------------------
(* difflib.SequenceMatcher(None, a, b).ratio(), no junk, no autojunk        *)
(* (sequences shorter than 200)                                             *)

\* length of the common run that starts at a[i] and b[j], inside the windows
RECURSIVE RunLength(_, _, _, _, _, _)
RunLength(a, b, i, j, ahi, bhi) ==
    IF i > ahi \/ j > bhi \/ a[i] # b[j] THEN 0
    ELSE 1 + RunLength(a, b, i + 1, j + 1, ahi, bhi)

\* find_longest_match: the longest block of a[alo..ahi] and b[blo..bhi]; of
\* the longest, the one starting earliest in a, and of those earliest in b.
\* The windows are scanned in that order and a block replaces the best one
\* only when it is strictly longer.  ScanRow scans the starts b[j..bhi] for
\* one start a[i]; j 0 says that the row holds no longer block.
RECURSIVE ScanRow(_, _, _, _, _, _, _, _)
ScanRow(a, b, i, j, ahi, bhi, bestj, bestsize) ==
    IF j > bhi THEN [j |-> bestj, size |-> bestsize]
    ELSE IF RunLength(a, b, i, j, ahi, bhi) > bestsize
         THEN ScanRow(a, b, i, j + 1, ahi, bhi, j, RunLength(a, b, i, j, ahi, bhi))
         ELSE ScanRow(a, b, i, j + 1, ahi, bhi, bestj, bestsize)

\* (the row's result is bound once, as the loop's local variables are)
RECURSIVE ScanMatch(_, _, _, _, _, _, _, _, _)
ScanMatch(a, b, i, ahi, blo, bhi, besti, bestj, bestsize) ==
    IF i > ahi THEN [i |-> besti, j |-> bestj, size |-> bestsize]
    ELSE CHOOSE best \in
            { IF row.size > bestsize
              THEN ScanMatch(a, b, i + 1, ahi, blo, bhi, i, row.j, row.size)
              ELSE ScanMatch(a, b, i + 1, ahi, blo, bhi, besti, bestj, bestsize) :
                row \in {ScanRow(a, b, i, blo, ahi, bhi, 0, bestsize)} } : TRUE

FindLongestMatch(a, b, alo, ahi, blo, bhi) ==
    ScanMatch(a, b, alo, ahi, blo, bhi, alo, blo, 0)

\* get_matching_blocks: total size of the blocks found by recursing to the
\* left and to the right of the longest block m
RECURSIVE MatchingSize(_, _, _, _, _, _)
MatchingSize(a, b, alo, ahi, blo, bhi) ==
    IF alo > ahi \/ blo > bhi THEN 0
    ELSE CHOOSE total \in
            { IF m.size = 0 THEN 0
              ELSE m.size
                   + MatchingSize(a, b, alo, m.i - 1, blo, m.j - 1)
                   + MatchingSize(a, b, m.i + m.size, ahi, m.j + m.size, bhi) :
                m \in {FindLongestMatch(a, b, alo, ahi, blo, bhi)} } : TRUE

\* ratio(): 2.0 * matches / (len(a) + len(b)), 1.0 when both are empty;
\* kept as the fraction num/den
Ratio(a, b) ==
    IF Len(a) + Len(b) = 0 THEN [num |-> 1, den |-> 1]
    ELSE [num |-> 2 * MatchingSize(a, b, 1, Len(a), 1, Len(b)),
          den |-> Len(a) + Len(b)]

\* SequenceMatcher(None, a, b): the two sequences are evaluated once
Matcher(seq1, seq2) == CHOOSE r \in {Ratio(a, b) : a \in {seq1}, b \in {seq2}} : TRUE

\* fraction > threshold (hundredths)
Exceeds(r, threshold) == r.num * 100 > threshold * r.den

text_similarity(text1, text2) == Matcher(LowerText(text1), LowerText(text2))

address_similarity(addr1, addr2) == Matcher(addr1, addr2)

\* set((item.get('name', '').lower(), item.get('qty', 0)) for item in items)
ItemKeySet(items) == {<<LowerStr(items[i].name), items[i].qty>> : i \in 1..Len(items)}

\* the intersection over the first set in place of the union
items_similarity_OverFirst(items1, items2) ==
    IF items1 = <<>> \/ items2 = <<>> THEN [num |-> 0, den |-> 1]
    ELSE [num |-> Cardinality(ItemKeySet(items1) \cap ItemKeySet(items2)),
          den |-> Cardinality(ItemKeySet(items1))]

items_similarity(items1, items2) ==
    IF items1 = <<>> \/ items2 = <<>> THEN [num |-> 0, den |-> 1]
    ELSE LET set1 == ItemKeySet(items1)
             set2 == ItemKeySet(items2)
         IN  IF set1 = {} /\ set2 = {} THEN [num |-> 1, den |-> 1]
             ELSE IF set1 = {} \/ set2 = {} THEN [num |-> 0, den |-> 1]
             ELSE [num |-> Cardinality(set1 \cap set2),
                   den |-> Cardinality(set1 \cup set2)]

\* A total is a Python float, an IEEE 754 double with 53 significant bits.
\* Float(m, e) is the amount of m * 2^e cents; the amounts a document states
\* are Cents(n).  Amounts are compared by value.
Float(m, e) == [m |-> m, e |-> e]
Cents(n) == Float(n, 0)

RECURSIVE BitLen(_)
BitLen(n) == IF n = 0 THEN 0 ELSE 1 + BitLen(n \div 2)

RECURSIVE Pow2(_)
Pow2(n) == IF n = 0 THEN 1 ELSE 2 * Pow2(n - 1)

\* the same amount written with an odd m (m 0, e 0 for zero)
RECURSIVE Normal(_)
Normal(x) ==
    IF x.m = 0 THEN Float(0, 0)
    ELSE IF x.m % 2 = 0 THEN Normal(Float(x.m \div 2, x.e + 1))
    ELSE x

\* the amount lies in [2^(Top-1), 2^Top)
Top(x) == x.e + BitLen(x.m)

FloatEq(x, y) == Normal(x) = Normal(y)

\* x < y
FloatLess(x, y) ==
    IF y.m = 0 THEN FALSE
    ELSE IF x.m = 0 THEN TRUE
    ELSE IF Top(x) # Top(y) THEN Top(x) < Top(y)
    ELSE LET lo == IF x.e < y.e THEN x.e ELSE y.e
         IN  x.m * Pow2(x.e - lo) < y.m * Pow2(y.e - lo)

\* big - small rounds (to nearest, ties to even) back to big: small is at
\* most half the distance from big to the double below it, and at a tie the
\* last of big's 53 bits is 0
Absorbed(big, small) ==
    IF small.m = 0 THEN TRUE
    ELSE IF Normal(big).m = 1
    THEN Top(big) >= 55
         /\ ~FloatLess(Float(1, Top(big) - 55), small)
    ELSE Top(big) >= 54
         /\ \/ FloatLess(small, Float(1, Top(big) - 54))
            \/ /\ FloatEq(small, Float(1, Top(big) - 54))
               /\ Normal(big).e >= Top(big) - 52

\* abs(total1 - total2): the amount hi - lo.  The subtraction is exact
\* unless the smaller total is absorbed; a rounding in the last of 53 bits
\* that leaves the result below the larger total is not modelled.
AbsDifference(total1, total2) ==
    LET big == IF FloatLess(total1, total2) THEN total2 ELSE total1
        small == IF FloatLess(total1, total2) THEN total1 ELSE total2
    IN  [hi |-> big, lo |-> IF Absorbed(big, small) THEN Float(0, 0) ELSE small]

\* the difference divided by the first total in place of the larger one
price_difference_OverFirst(total1, total2) ==
    IF total1.m = 0 /\ total2.m = 0
    THEN [hi |-> Float(0, 0), lo |-> Float(0, 0), den |-> Float(1, 0)]
    ELSE IF total1.m = 0 \/ total2.m = 0
    THEN [hi |-> Float(1, 0), lo |-> Float(0, 0), den |-> Float(1, 0)]
    ELSE [hi |-> AbsDifference(total1, total2).hi,
          lo |-> AbsDifference(total1, total2).lo, den |-> total1]

\* the relative difference (hi - lo) / den
price_difference(total1, total2) ==
    IF total1.m = 0 /\ total2.m = 0
    THEN [hi |-> Float(0, 0), lo |-> Float(0, 0), den |-> Float(1, 0)]
    ELSE IF total1.m = 0 \/ total2.m = 0
    THEN [hi |-> Float(1, 0), lo |-> Float(0, 0), den |-> Float(1, 0)]
    ELSE LET diff == AbsDifference(total1, total2)
         IN  [hi |-> diff.hi, lo |-> diff.lo, den |-> diff.hi]

\* price_diff > threshold (hundredths): 100 * (hi - lo) > threshold * den,
\* where hi is den or, for the literal 0.0, hi is lo
PriceOver(price_diff, threshold) ==
    IF FloatEq(price_diff.hi, price_diff.lo) THEN threshold < 0
    ELSE IF threshold >= 100 THEN FALSE
    ELSE IF threshold < 0 THEN TRUE
    ELSE FloatLess(Float(100 * price_diff.lo.m, price_diff.lo.e),
                   Float((100 - threshold) * price_diff.den.m, price_diff.den.e))

\* the canonical form: four digits, two digits, two digits.  The strings
\* the contract pattern captures begin with one or two digits and a
\* separator, never with the four digits of %Y, so they are "raw".
IsCanonical(date) == date.fmt = "iso"

\* datetime.strptime(date, "%Y-%m-%d"): %m and %d also match a single digit
\* ("2023-3-5"); ValueError for any other string and for a day the month
\* does not have
StrptimeIso(date) ==
    IF date.fmt \in {"iso", "loose"}
       /\ date.m \in 1..12 /\ date.d >= 1 /\ date.d <= DaysInMonth(date.y, date.m)
    THEN [ok |-> TRUE, ordinal |-> Ordinal(date.y, date.m, date.d)]
    ELSE [ok |-> FALSE, ordinal |-> 0]

\* not date: None or the empty string
Falsy(date) == date.fmt = "none" \/ (date.fmt = "raw" /\ date.raw = "")

\* float('inf') or a number of days
Infinite == [inf |-> TRUE, days |-> 0]

date_difference(date1, date2) ==
    IF Falsy(date1) \/ Falsy(date2) THEN Infinite
    ELSE IF ~StrptimeIso(date1).ok \/ ~StrptimeIso(date2).ok THEN Infinite
    ELSE [inf |-> FALSE,
          days |-> Abs(StrptimeIso(date1).ordinal - StrptimeIso(date2).ordinal)]

\* a comparison that float('inf') passes
Within_AnyDistance(days_apart, threshold) ==
    days_apart.inf \/ days_apart.days <= threshold

\* days_apart <= days_threshold
Within(days_apart, threshold) == ~days_apart.inf /\ days_apart.days <= threshold

-----------------------------------------------------------------------------
(* json.dumps / json.loads of the items column *)

json_dumps(value) == [kind |-> "json", value |-> value]

\* a decoder that still yields the items of a text it cannot decode
LoadItems_Keep(items_json) == items_json.value

\* json.loads(items_json) if items_json else [], JSONDecodeError -> []
LoadItems(items_json) ==
    IF items_json.kind = "json" THEN items_json.value ELSE <<>>

-----------------------------------------------------------------------------
(* detect_fraud_indicators *)

TextWeight == 50
AddressWeight == 20
ItemsWeight == 30
PriceWeight == 25
DateWeight == 15
SignatoryWeight == 40
ReferenceWeight == 35

TextIssue == "Very high text similarity"
AddressIssue == "Similar but different addresses"
ItemsIssue == "High item similarity"
PriceIssue == "Significant price difference for similar items"
DateIssue == "Documents submitted within days"
SignatoryIssue == "Same signatory for different vendors"
ReferenceIssue == "Duplicate reference number"

\* risk_score = weight in place of risk_score += weight
Fire_Overwrite(acc, issue, weight) ==
    [issues |-> Append(acc.issues, issue), risk_score |-> weight]

\* issues.append(issue); risk_score += weight
Fire(acc, issue, weight) ==
    [issues |-> Append(acc.issues, issue), risk_score |-> acc.risk_score + weight]

\* the comparison of line 299 that never holds
TextFires_Never(cfg, raw, row) == FALSE

TextFires(cfg, raw, row) ==
    Exceeds(text_similarity(raw, row.raw_text), cfg.text_similarity_threshold)

AddressFires(cfg, new_doc, row) ==
    /\ new_doc.postal_code # <<>>
    /\ row.postal_code # <<>>
    /\ new_doc.postal_code # row.postal_code
    /\ Exceeds(address_similarity(new_doc.postal_code, row.postal_code),
               cfg.address_threshold)

ItemsFires(cfg, new_doc, row) ==
    Exceeds(items_similarity(new_doc.items, LoadItems(row.items)),
            cfg.items_threshold)

\* the comparison of line 321 that always holds
PriceExceeds_Always(cfg, new_doc, row) == TRUE

PriceExceeds(cfg, new_doc, row) ==
    PriceOver(price_difference(Cents(new_doc.total), Cents(row.total)),
              cfg.price_difference_threshold)

DateFires(cfg, new_doc, row) ==
    Within(date_difference(new_doc.date, row.date), cfg.days_threshold)

\* the test of line 331 without its comparison of the vendors
SignatoryFires_IgnoreVendor(cfg, new_doc, row) ==
    /\ new_doc.signatory # ""
    /\ new_doc.signatory = row.signatory
    /\ cfg.signatory_exact_match

SignatoryFires(cfg, new_doc, row) ==
    /\ new_doc.vendor # row.vendor
    /\ new_doc.signatory # ""
    /\ new_doc.signatory = row.signatory
    /\ cfg.signatory_exact_match

ReferenceFires(new_doc, row) ==
    /\ new_doc.reference_number # ""
    /\ row.reference_number # ""
    /\ new_doc.reference_number = row.reference_number

\* the body of the loop: issues and risk_score of one row
\* the price test moved out of the items branch
ScoreRow_PriceAlways(cfg, new_doc, raw, row) ==
    LET a0 == [issues |-> <<>>, risk_score |-> 0]
        a1 == IF TextFires(cfg, raw, row) THEN Fire(a0, TextIssue, TextWeight)
              ELSE a0
        a2 == IF AddressFires(cfg, new_doc, row)
              THEN Fire(a1, AddressIssue, AddressWeight) ELSE a1
        a3 == IF ItemsFires(cfg, new_doc, row)
              THEN Fire(a2, ItemsIssue, ItemsWeight) ELSE a2
        b3 == IF PriceExceeds(cfg, new_doc, row)
              THEN Fire(a3, PriceIssue, PriceWeight) ELSE a3
        a4 == IF DateFires(cfg, new_doc, row) THEN Fire(b3, DateIssue, DateWeight)
              ELSE b3
        a5 == IF SignatoryFires(cfg, new_doc, row)
              THEN Fire(a4, SignatoryIssue, SignatoryWeight) ELSE a4
        a6 == IF ReferenceFires(new_doc, row)
              THEN Fire(a5, ReferenceIssue, ReferenceWeight) ELSE a5
    IN  a6

ScoreRow(cfg, new_doc, raw, row) ==
    LET a0 == [issues |-> <<>>, risk_score |-> 0]
        a1 == IF TextFires(cfg, raw, row) THEN Fire(a0, TextIssue, TextWeight)
              ELSE a0
        a2 == IF AddressFires(cfg, new_doc, row)
              THEN Fire(a1, AddressIssue, AddressWeight) ELSE a1
        a3 == IF ItemsFires(cfg, new_doc, row)
              THEN LET b == Fire(a2, ItemsIssue, ItemsWeight) IN
                   IF PriceExceeds(cfg, new_doc, row)
                   THEN Fire(b, PriceIssue, PriceWeight) ELSE b
              ELSE a2
        a4 == IF DateFires(cfg, new_doc, row) THEN Fire(a3, DateIssue, DateWeight)
              ELSE a3
        a5 == IF SignatoryFires(cfg, new_doc, row)
              THEN Fire(a4, SignatoryIssue, SignatoryWeight) ELSE a4
        a6 == IF ReferenceFires(new_doc, row)
              THEN Fire(a5, ReferenceIssue, ReferenceWeight) ELSE a5
    IN  a6

Flag(row, acc) ==
    [existing_doc_id |-> row.id, existing_vendor |-> row.vendor,
     existing_type |-> row.document_type, risk_score |-> acc.risk_score,
     issues |-> acc.issues]

\* the loop: one flag per row that has issues, in the order of existing_docs
RECURSIVE EmitFlags(_, _, _, _)
EmitFlags(cfg, new_doc, raw, rows) ==
    IF rows = <<>> THEN <<>>
    ELSE LET acc == ScoreRow(cfg, new_doc, raw, Head(rows))
             rest == EmitFlags(cfg, new_doc, raw, Tail(rows))
         IN  IF acc.issues # <<>> THEN <<Flag(Head(rows), acc)>> \o rest
             ELSE rest

\* an unstable descending sort: f is placed before the flags of equal score
RECURSIVE InsertSorted_Unstable(_, _)
InsertSorted_Unstable(sorted, f) ==
    IF sorted = <<>> THEN <<f>>
    ELSE IF Head(sorted).risk_score > f.risk_score
         THEN <<Head(sorted)>> \o InsertSorted_Unstable(Tail(sorted), f)
         ELSE <<f>> \o sorted

\* where list.sort(key=risk_score, reverse=True) places flag f in a sorted
\* list: after every flag whose score is not smaller (the sort is stable)
RECURSIVE InsertSorted(_, _)
InsertSorted(sorted, f) ==
    IF sorted = <<>> THEN <<f>>
    ELSE IF Head(sorted).risk_score >= f.risk_score
         THEN <<Head(sorted)>> \o InsertSorted(Tail(sorted), f)
         ELSE <<f>> \o sorted

RECURSIVE SortFlagsFrom(_, _)
SortFlagsFrom(sorted, flags) ==
    IF flags = <<>> THEN sorted
    ELSE SortFlagsFrom(InsertSorted(sorted, Head(flags)), Tail(flags))

\* flags.sort(key=lambda x: x['risk_score'], reverse=True)
SortFlags(flags) == SortFlagsFrom(<<>>, flags)

detect_fraud_indicators(cfg, new_doc, raw, rows) ==
    SortFlags(EmitFlags(cfg, new_doc, raw, rows))

-----------------------------------------------------------------------------
(* _assess_overall_risk *)

CriticalScore == 80
HighScore == 60
MediumScore == 40

RECURSIVE MaxScore(_)
MaxScore(flags) ==
    IF Len(flags) = 1 THEN flags[1].risk_score
    ELSE Max2(flags[1].risk_score, MaxScore(Tail(flags)))

\* the boundaries compared with > in place of >=
RiskLevel_Strict(max_score) ==
    IF max_score > CriticalScore THEN "CRITICAL"
    ELSE IF max_score > HighScore THEN "HIGH"
    ELSE IF max_score > MediumScore THEN "MEDIUM"
    ELSE "LOW"

RiskLevel(max_score) ==
    IF max_score >= CriticalScore THEN "CRITICAL"
    ELSE IF max_score >= HighScore THEN "HIGH"
    ELSE IF max_score >= MediumScore THEN "MEDIUM"
    ELSE "LOW"

RiskDescription(level) ==
    CASE level = "CRITICAL" -> "High probability of document fraud detected"
      [] level = "HIGH" -> "Multiple suspicious indicators detected"
      [] level = "MEDIUM" -> "Some suspicious patterns detected"
      [] level = "LOW" -> "Minor similarities detected"

assess_overall_risk(flags) ==
    IF flags = <<>>
    THEN [level |-> "LOW", score |-> 0,
          description |-> "No suspicious patterns detected"]
    ELSE LET max_score == MaxScore(flags)
             level == RiskLevel(max_score)
         IN  [level |-> level, score |-> max_score,
              description |-> RiskDescription(level),
              flagged_documents |-> Len(flags)]

-----------------------------------------------------------------------------
(* The document store: table documents of the SQLite database *)

NoRow == [id |-> 0]

MakeRow(id, data, raw) ==
    [id |-> id, document_type |-> data.document_type, vendor |-> data.vendor,
     client |-> data.client, date |-> data.date,
     postal_code |-> data.postal_code, items |-> json_dumps(data.items),
     total |-> data.total, signatory |-> data.signatory,
     reference_number |-> data.reference_number,
     additional_fields |-> json_dumps(data.additional_fields),
     raw_text |-> raw]

RECURSIVE MaxId(_)
MaxId(rows) == IF rows = <<>> THEN 0 ELSE Max2(Head(rows).id, MaxId(Tail(rows)))

\* INTEGER PRIMARY KEY AUTOINCREMENT: one more than the largest rowid the
\* table ever held
NextRowid(rows, seq) == Max2(MaxId(rows), seq) + 1

\* an INSERT that takes no lock
WriteLockFree_NoLock(pend, p) == TRUE

\* c.execute(INSERT) takes the database's write lock: it proceeds only while
\* no other connection holds an uncommitted write
WriteLockFree(pend, p) == \A q \in DOMAIN pend : q = p \/ pend[q] = NoRow

\* INSERT OR REPLACE onto the last row of the table
CommitRow_Replace(rows, row) ==
    IF rows = <<>> THEN <<row>> ELSE [rows EXCEPT ![Len(rows)] = row]

\* conn.commit(): the pending row becomes the last row of the table
CommitRow(rows, row) == Append(rows, row)

\* a SELECT under read_uncommitted: the pending rows are seen as well
RECURSIVE Visible_Dirty(_, _)
Visible_Dirty(rows, pend) ==
    IF pend = <<>> THEN rows
    ELSE LET rest == Visible_Dirty(rows, Tail(pend))
         IN  IF Head(pend) = NoRow THEN rest ELSE Append(rest, Head(pend))

\* the rows a SELECT of another connection sees: the committed ones
Visible(rows, pend) == rows

\* the query without its "id != ?" condition
fetch_existing_documents_All(rows, exclude_id, document_type) ==
    LET SameType(r) ==
            document_type \notin {None, ""} => r.document_type = document_type
    IN  SelectSeq(rows, SameType)

\* the query without its "document_type = ?" condition
fetch_existing_documents_AnyType(rows, exclude_id, document_type) ==
    LET Others(r) == exclude_id # 0 => r.id # exclude_id
    IN  SelectSeq(rows, Others)

\* exclude_id None and 0 are both false in "if exclude_id:" and are both
\* written 0; document_type None and "" are both false in "if document_type:"
fetch_existing_documents(rows, exclude_id, document_type) ==
    LET Keep(r) ==
            /\ (exclude_id # 0 => r.id # exclude_id)
            /\ (document_type \notin {None, ""} => r.document_type = document_type)
    IN  SelectSeq(rows, Keep)

-----------------------------------------------------------------------------
(* The text-extraction collaborator: the documents on disk *)

QuoteA ==
    << Word("ESTIMATE"), VendorLine("ACME PTE LTD"),
       LongDateLine(12, "March", 2023),
       ItemLine(5, "Steel Beam", 5, R12_50, R60), RefLine("QT-001") >>

Contract1 ==
    << ContractorLine("Acme Builders LTD"), CDateLine("12/03/2023"),
       SignedLine("John Tan"), CNumLine("C-77") >>

PdfPaths == {"quoteA.pdf", "contract1.pdf", "corrupt.pdf"}

\* fitz.open raises on a file that is no PDF
extract_text_from_pdf(pdf_path) ==
    CASE pdf_path = "quoteA.pdf" -> [ok |-> TRUE, text |-> QuoteA]
      [] pdf_path = "contract1.pdf" -> [ok |-> TRUE, text |-> Contract1]
      [] OTHER -> [ok |-> FALSE, text |-> <<>>]

-----------------------------------------------------------------------------
(* process_document, one action per step of the call *)

Calls == 1..NumCalls

\* process_document with the fetch placed before the insert
NextStep_FetchFirst(step) ==
    CASE step = "parse" -> "fetch"
      [] step = "fetch" -> "insert"
      [] step = "insert" -> "commit"
      [] step = "commit" -> "detect"
      [] step = "detect" -> "done"

\* the statement that follows each statement of process_document
NextStep(step) ==
    CASE step = "parse" -> "insert"
      [] step = "insert" -> "commit"
      [] step = "commit" -> "fetch"
      [] step = "fetch" -> "detect"
      [] step = "detect" -> "done"

Returned(p) == pc[p] \in {"done", "failed"}

\* calls are numbered in the order in which they begin
MayBegin(p) == pc[p] = "idle" /\ (IF p = 1 THEN TRUE ELSE pc[p - 1] # "idle")

\* lines 359-360: the text extracted from pdf_path and what parsing it gives
Ingest(pdf_path, document_type) ==
    LET extracted == extract_text_from_pdf(pdf_path) IN
    IF ~extracted.ok
    THEN [extracted |-> FALSE, text |-> <<>>, parsed |-> Raised("extraction")]
    ELSE [extracted |-> TRUE, text |-> extracted.text,
          parsed |-> parse_document(extracted.text, document_type)]

NoResult == [ok |-> FALSE, err |-> ""]

\* no direct call of a function is made
NoCall == [fn |-> "none"]
NotReturned == [returned |-> FALSE]
Return(value) == [returned |-> TRUE, value |-> value]

\* documents.db outlives the program: the table as earlier runs left it,
\* empty or holding one contract
InitialStores ==
    { <<>>,
      <<MakeRow(1, parse_document(Contract1, "contract").doc, Contract1)>> }

PipelineInit(configs) ==
    /\ config \in configs
    /\ db \in InitialStores
    /\ sqlite_seq = MaxId(db)
    /\ pending = [p \in Calls |-> NoRow]
    /\ log = [i \in 1..Len(db) |-> [by |-> 0, row |-> db[i]]]
    /\ pc = [p \in Calls |-> "idle"]
    /\ raw_text = [p \in Calls |-> <<>>]
    /\ doc_data = [p \in Calls |-> NoDoc]
    /\ doc_id = [p \in Calls |-> 0]
    /\ existing_docs = [p \in Calls |-> <<>>]
    /\ result = [p \in Calls |-> NoResult]
    /\ fetched_at = [p \in Calls |-> 0]
    /\ call = NoCall
    /\ ret = NotReturned

\* lines 359-360 with a text extraction that raises
ExtractFails(p, ingested) ==
    /\ MayBegin(p)
    /\ ~ingested.extracted
    /\ pc' = [pc EXCEPT ![p] = "failed"]
    /\ result' = [result EXCEPT ![p] = [ok |-> FALSE, err |-> "extraction"]]
    /\ UNCHANGED <<config, db, sqlite_seq, pending, log, raw_text, doc_data,
                   doc_id, existing_docs, fetched_at, call, ret>>

\* lines 359-360 with a parse that raises
ParseFails(p, ingested) ==
    /\ MayBegin(p)
    /\ ingested.extracted
    /\ ~ingested.parsed.ok
    /\ raw_text' = [raw_text EXCEPT ![p] = ingested.text]
    /\ result' = [result EXCEPT ![p] = [ok |-> FALSE, err |-> ingested.parsed.err]]
    /\ pc' = [pc EXCEPT ![p] = "failed"]
    /\ UNCHANGED <<config, db, sqlite_seq, pending, log, doc_data, doc_id,
                   existing_docs, fetched_at, call, ret>>

\* lines 359-360: raw_text and doc_data are set
ExtractAndParse(p, ingested) ==
    /\ MayBegin(p)
    /\ ingested.extracted
    /\ ingested.parsed.ok
    /\ raw_text' = [raw_text EXCEPT ![p] = ingested.text]
    /\ doc_data' = [doc_data EXCEPT ![p] = ingested.parsed.doc]
    /\ pc' = [pc EXCEPT ![p] = NextStep("parse")]
    /\ UNCHANGED <<config, db, sqlite_seq, pending, log, doc_id,
                   existing_docs, result, fetched_at, call, ret>>

\* insert_document, lines 190-202: the INSERT runs under the write lock and
\* is given the next rowid
InsertExecute(p) ==
    /\ pc[p] = "insert"
    /\ WriteLockFree(pending, p)
    /\ pending' = [pending EXCEPT ![p] =
                      MakeRow(NextRowid(db, sqlite_seq), doc_data[p], raw_text[p])]
    /\ pc' = [pc EXCEPT ![p] = NextStep("insert")]
    /\ UNCHANGED <<config, db, sqlite_seq, log, raw_text, doc_data,
                   doc_id, existing_docs, result, fetched_at, call, ret>>

\* insert_document, line 192, while another connection holds the write lock
\* for longer than the connection's busy timeout: sqlite3.OperationalError
InsertBusy(p) ==
    /\ pc[p] = "insert"
    /\ ~WriteLockFree(pending, p)
    /\ pc' = [pc EXCEPT ![p] = "failed"]
    /\ result' = [result EXCEPT ![p] = [ok |-> FALSE, err |-> "database is locked"]]
    /\ UNCHANGED <<config, db, sqlite_seq, pending, log, raw_text,
                   doc_data, doc_id, existing_docs, fetched_at, call, ret>>

\* insert_document, lines 203-206: commit, then return c.lastrowid
InsertCommit(p) ==
    /\ pc[p] = "commit"
    /\ db' = CommitRow(db, pending[p])
    /\ sqlite_seq' = Max2(sqlite_seq, pending[p].id)
    /\ log' = Append(log, [by |-> p, row |-> pending[p]])
    /\ doc_id' = [doc_id EXCEPT ![p] = pending[p].id]
    /\ pending' = [pending EXCEPT ![p] = NoRow]
    /\ pc' = [pc EXCEPT ![p] = NextStep("commit")]
    /\ UNCHANGED <<config, raw_text, doc_data, existing_docs, result,
                   fetched_at, call, ret>>

\* lines 366-369
Fetch(p) ==
    /\ pc[p] = "fetch"
    /\ existing_docs' = [existing_docs EXCEPT ![p] =
            fetch_existing_documents(Visible(db, pending), doc_id[p],
                                     doc_data[p].document_type)]
    /\ fetched_at' = [fetched_at EXCEPT ![p] = Len(log)]
    /\ pc' = [pc EXCEPT ![p] = NextStep("fetch")]
    /\ UNCHANGED <<config, db, sqlite_seq, pending, log, raw_text,
                   doc_data, doc_id, result, call, ret>>

\* lines 372-379
Detect(p) ==
    /\ pc[p] = "detect"
    /\ LET flags == detect_fraud_indicators(config, doc_data[p], raw_text[p],
                                            existing_docs[p])
       IN  result' = [result EXCEPT ![p] =
                [ok |-> TRUE, document_id |-> doc_id[p],
                 document_data |-> doc_data[p], flags |-> flags,
                 risk_assessment |-> assess_overall_risk(flags)]]
    /\ pc' = [pc EXCEPT ![p] = NextStep("detect")]
    /\ UNCHANGED <<config, db, sqlite_seq, pending, log, raw_text,
                   doc_data, doc_id, existing_docs, fetched_at, call, ret>>

\* what lines 359-360 give for every document and declared type
Ingested ==
    {Ingest(pdf_path, document_type) :
        pdf_path \in PdfPaths, document_type \in DeclaredTypes}

Next ==
    \E p \in Calls :
        \/ \E ingested \in Ingested :
              \/ ExtractFails(p, ingested)
              \/ ParseFails(p, ingested)
              \/ ExtractAndParse(p, ingested)
        \/ InsertExecute(p)
        \/ InsertBusy(p)
        \/ InsertCommit(p)
        \/ Fetch(p)
        \/ Detect(p)

\* overlapping calls on a detector with the default configuration
Init == PipelineInit({DefaultConfig})

Spec == Init /\ [][Next]_vars

\* calls made one after the other, as the batch loop of main() does, on a
\* detector with any of the configurations
InitSeq == PipelineInit(Configs)

NextSeq ==
    \E p \in Calls :
        /\ \A q \in Calls : q < p => Returned(q)
        /\ \/ \E ingested \in Ingested :
                  \/ ExtractFails(p, ingested)
                  \/ ParseFails(p, ingested)
                  \/ ExtractAndParse(p, ingested)
           \/ InsertExecute(p)
           \/ InsertCommit(p)
           \/ Fetch(p)
           \/ Detect(p)

SpecSeq == InitSeq /\ [][NextSeq]_vars

-----------------------------------------------------------------------------
(* Direct calls of parse_document on every short text *)

\* the detector is constructed and no document is being processed
PipelineIdle(configs) ==
    /\ config \in configs
    /\ db = <<>>
    /\ sqlite_seq = 0
    /\ pending = [p \in Calls |-> NoRow]
    /\ log = <<>>
    /\ pc = [p \in Calls |-> "idle"]
    /\ raw_text = [p \in Calls |-> <<>>]
    /\ doc_data = [p \in Calls |-> NoDoc]
    /\ doc_id = [p \in Calls |-> 0]
    /\ existing_docs = [p \in Calls |-> <<>>]
    /\ result = [p \in Calls |-> NoResult]
    /\ fetched_at = [p \in Calls |-> 0]

Texts == SeqsUpTo(Tokens, MaxTextLen)

InitParse ==
    /\ PipelineIdle({DefaultConfig})
    /\ call \in {[fn |-> "parse_document", text |-> t, document_type |-> d] :
                    t \in Texts, d \in DeclaredTypes}
    /\ ret = NotReturned

ParseDocumentCall ==
    /\ call.fn = "parse_document"
    /\ ~ret.returned
    /\ ret' = Return(parse_document(call.text, call.document_type))
    /\ UNCHANGED <<pipeVars, call>>

NextParse == ParseDocumentCall

SpecParse == InitParse /\ [][NextParse]_vars

-----------------------------------------------------------------------------
(* Direct calls of detect_fraud_indicators on rows the store can hold *)

ScoreA ==
    << Word("ESTIMATE"), VendorLine("ACME PTE LTD"),
       LongDateLine(12, "March", 2023), PostalLine(P123456),
       ItemLine(5, "Steel Beam", 5, R12_50, R60), TotalLine(D10000, 0),
       NameLine("John Tan"), RefLine("QT-001") >>

\* ScoreA with its first word in lower case
ScoreALower == [ScoreA EXCEPT ![1] = Word("estimate")]

\* another vendor: postal code one digit off, same items, total 5% higher,
\* dated two days later, same signatory and reference
ScoreB ==
    << Word("ESTIMATE"), VendorLine("BETA PTE LTD"),
       LongDateLine(14, "march", 2023), PostalLine(P123457),
       ItemLine(5, "steel beam", 5, R12_50, R60), TotalLine(D10500, 0),
       NameLine(" John Tan "), RefLine("QT-001") >>

\* same items at half the price
ScoreCheap ==
    << VendorLine("BETA PTE LTD"), ItemLine(5, "Steel Beam", 5, R12_50, R60),
       TotalLine(D5000, 0), RefLine("QT-002") >>

ScorePlain == << Word("hello") >>

\* the documents that are parsed and stored, each with its type
ScoreDocs ==
    { [text |-> ScoreA, document_type |-> "quotation"],
      [text |-> ScoreALower, document_type |-> "quotation"],
      [text |-> ScoreB, document_type |-> "quotation"],
      [text |-> ScoreCheap, document_type |-> "quotation"],
      [text |-> ScorePlain, document_type |-> "quotation"],
      [text |-> Contract1, document_type |-> "contract"] }

\* two quotations of different vendors that share their items and their
\* reference number and nothing else; the totals differ by 5%
ScenNew ==
    << Word("ESTIMATE"), VendorLine("ACME PTE LTD"),
       ItemLine(5, "Steel Beam", 5, R12_50, R60), TotalLine(D10000, 0),
       RefLine("QT-001") >>

ScenStored ==
    << Word("hello"), VendorLine("BETA PTE LTD"),
       ItemLine(5, "Steel Beam", 5, R12_50, R60), TotalLine(D10500, 0),
       RefLine("QT-001") >>

DocOf(d) == parse_document(d.text, d.document_type).doc

\* documents.db outlives the process and DocumentData is a plain dataclass:
\* a date may be any string and a stored items column any text.  Loosen
\* writes the month of a canonical date with one digit, Truncate cuts the
\* items column short so that it is no JSON text any more.
Loosen(date) ==
    IF date.fmt = "iso" /\ date.m < 10 THEN LooseDate(date.y, date.m, date.d)
    ELSE date

Truncate(items_json) == [kind |-> "malformed", value |-> items_json.value]

Unedited(d) == [text |-> d.text, document_type |-> d.document_type, edit |-> "none"]

\* the documents a scoring run is called for
NewDocs ==
    { Unedited(d) : d \in ScoreDocs \ {[text |-> ScoreCheap, document_type |-> "quotation"]} }
    \cup { [text |-> ScenNew, document_type |-> "quotation", edit |-> "none"],
           [text |-> ScoreA, document_type |-> "quotation", edit |-> "date"] }

\* the documents behind the rows of the comparison set
StoredDocs ==
    { Unedited(d) : d \in ScoreDocs }
    \cup { [text |-> ScenStored, document_type |-> "quotation", edit |-> "none"],
           [text |-> ScoreB, document_type |-> "quotation", edit |-> "date"],
           [text |-> ScoreB, document_type |-> "quotation", edit |-> "items"] }

EditedDoc(d) ==
    IF d.edit = "date" THEN [DocOf(d) EXCEPT !.date = Loosen(@)] ELSE DocOf(d)

EditedRow(row, edit) ==
    IF edit = "items" THEN [row EXCEPT !.items = Truncate(@)] ELSE row

\* the rows that inserting the documents docs, in this order, leaves
RowsOf(docs) ==
    [i \in 1..Len(docs) |->
        EditedRow(MakeRow(i, EditedDoc(docs[i]), docs[i].text), docs[i].edit)]

InitScore ==
    /\ PipelineIdle(Configs)
    /\ call \in {[fn |-> "detect_fraud_indicators", new_doc |-> EditedDoc(d),
                  raw_text |-> d.text, existing_docs |-> RowsOf(docs)] :
                    d \in NewDocs, docs \in SeqsUpTo(StoredDocs, MaxExisting)}
    /\ ret = NotReturned

DetectCall ==
    /\ call.fn = "detect_fraud_indicators"
    /\ ~ret.returned
    /\ ret' = Return(detect_fraud_indicators(config, call.new_doc, call.raw_text,
                                             call.existing_docs))
    /\ UNCHANGED <<pipeVars, call>>

NextScore == DetectCall

SpecScore == InitScore /\ [][NextScore]_vars

-----------------------------------------------------------------------------
(* Direct calls of _assess_overall_risk *)

\* risk scores around the boundaries of the levels, the smallest and the
\* largest sum of weights
RiskScores == {15, 39, 40, 59, 60, 79, 80, 215}

RiskFlags ==
    {[existing_doc_id |-> 1, existing_vendor |-> "ACME PTE LTD",
      existing_type |-> "quotation", risk_score |-> s,
      issues |-> <<TextIssue>>] : s \in RiskScores}

InitRisk ==
    /\ PipelineIdle({DefaultConfig})
    /\ call \in {[fn |-> "_assess_overall_risk", flags |-> f] :
                    f \in SeqsUpTo(RiskFlags, MaxFlags)}
    /\ ret = NotReturned

AssessCall ==
    /\ call.fn = "_assess_overall_risk"
    /\ ~ret.returned
    /\ ret' = Return(assess_overall_risk(call.flags))
    /\ UNCHANGED <<pipeVars, call>>

NextRisk == AssessCall

SpecRisk == InitRisk /\ [][NextRisk]_vars

-----------------------------------------------------------------------------
(* The comparison functions called directly: items_similarity,
   price_difference and date_difference *)

MaxItems == 2

SimItem(name, qty) ==
    [name |-> name, qty |-> qty, rate |-> [num |-> 25, den |-> 2],
     total |-> [num |-> 60, den |-> 1]]

\* the same name in two spellings, the same name with another quantity,
\* another name
SimItems ==
    { SimItem("Steel Beam", 5), SimItem("steel beam", 5),
      SimItem("Steel Beam", 6), SimItem("Bolt", 5) }

\* totals of documents, and amounts of 25 * 2^55, 25 * 2^56, 2^57 and
\* 3 * 2^60 cents, which the total pattern ([0-9,]+\.\d{2}) matches as well
SimTotals ==
    { Cents(0), Cents(100), Cents(105), Cents(256), Cents(1000000),
      Cents(1050000), Float(25, 55), Float(25, 56), Float(1, 57), Float(3, 60) }

\* None, "", "12/03/2023", "2023-03-12", "2023-03-14", "2023-3-5",
\* "2023-02-30"
SimDates ==
    { NoDate, RawDate(""), RawDate("12/03/2023"), IsoDate(2023, 3, 12),
      IsoDate(2023, 3, 14), LooseDate(2023, 3, 5), IsoDate(2023, 2, 30) }

InitSim ==
    /\ PipelineIdle({DefaultConfig})
    /\ call \in {[fn |-> "items_similarity", items1 |-> a, items2 |-> b] :
                    a, b \in SeqsUpTo(SimItems, MaxItems)}
                \cup {[fn |-> "price_difference", total1 |-> a, total2 |-> b] :
                        a, b \in SimTotals}
                \cup {[fn |-> "date_difference", date1 |-> a, date2 |-> b] :
                        a, b \in SimDates}
    /\ ret = NotReturned

ItemsSimilarityCall ==
    /\ call.fn = "items_similarity"
    /\ ~ret.returned
    /\ ret' = Return(items_similarity(call.items1, call.items2))
    /\ UNCHANGED <<pipeVars, call>>

PriceDifferenceCall ==
    /\ call.fn = "price_difference"
    /\ ~ret.returned
    /\ ret' = Return(price_difference(call.total1, call.total2))
    /\ UNCHANGED <<pipeVars, call>>

DateDifferenceCall ==
    /\ call.fn = "date_difference"
    /\ ~ret.returned
    /\ ret' = Return(date_difference(call.date1, call.date2))
    /\ UNCHANGED <<pipeVars, call>>

NextSim == ItemsSimilarityCall \/ PriceDifferenceCall \/ DateDifferenceCall

SpecSim == InitSim /\ [][NextSim]_vars

-----------------------------------------------------------------------------
(* Claims about parse_document (SpecParse) *)

ParseReturned == ret.returned /\ call.fn = "parse_document"

\* the strings the lines of text offer to a field: what a pattern of the
\* kinds in kinds captures, after strip()
Captured(text, kinds) ==
    {StripStr(text[i].s) : i \in {j \in 1..Len(text) : text[j].k \in kinds}}

\* every field of doc is a value matched in text or the field's default
MatchedOrDefault(text, doc) ==
    /\ doc.vendor \in Captured(text, {"vendor", "contractor"})
                        \cup {"Unknown Vendor", "Unknown Contractor"}
    /\ doc.client \in Captured(text, {"client", "cclient"}) \cup {"Unknown Client"}
    /\ doc.signatory \in Captured(text, {"name", "signed"}) \cup {""}
    /\ doc.reference_number
          \in Captured(text, {"ref", "cnum"}) \cup {"", "or", "Value"}
    /\ \/ doc.postal_code = <<>>
       \/ \E i \in 1..Len(text) : text[i].k = "postal" /\ doc.postal_code = text[i].t
    /\ \/ doc.total = 0
       \/ \E i \in 1..Len(text) :
             text[i].k \in {"total", "cvalue"} /\ doc.total = TotalValue(text[i])
    /\ \/ doc.date = NoDate
       \/ \E i \in 1..Len(text) :
             \/ text[i].k = "cdate" /\ doc.date = RawDate(text[i].s)
             \/ /\ text[i].k = "longdate"
                /\ doc.date.fmt = "iso"
                /\ doc.date.d = text[i].n
                /\ doc.date.y = text[i].m
    /\ Len(doc.items) <= Len(text)

\* C1: for every raw text and each registered parser variant (quotation,
\* contract) parsing returns a record and never raises, and every field of
\* the record is the value its pattern matched or its documented default.
C1_ParseNeverRaises ==
    (ParseReturned /\ call.document_type \in RegisteredTypes)
        => /\ ret.value.ok
           /\ MatchedOrDefault(call.text, ret.value.doc)

-----------------------------------------------------------------------------
(* Claims about detect_fraud_indicators (SpecScore) *)

DetectReturned == ret.returned /\ call.fn = "detect_fraud_indicators"

\* the seven signals in the order in which the loop evaluates them
Signals == <<"text", "postal", "items", "price", "date", "signatory", "reference">>

SignalFired(sig, cfg, new_doc, raw, row) ==
    CASE sig = "text" -> TextFires(cfg, raw, row)
      [] sig = "postal" -> AddressFires(cfg, new_doc, row)
      [] sig = "items" -> ItemsFires(cfg, new_doc, row)
      [] sig = "price" -> ItemsFires(cfg, new_doc, row) /\ PriceExceeds(cfg, new_doc, row)
      [] sig = "date" -> DateFires(cfg, new_doc, row)
      [] sig = "signatory" -> SignatoryFires(cfg, new_doc, row)
      [] sig = "reference" -> ReferenceFires(new_doc, row)

SignalWeight(sig) ==
    CASE sig = "text" -> 50 [] sig = "postal" -> 20 [] sig = "items" -> 30
      [] sig = "price" -> 25 [] sig = "date" -> 15 [] sig = "signatory" -> 40
      [] sig = "reference" -> 35

SignalIssue(sig) ==
    CASE sig = "text" -> TextIssue [] sig = "postal" -> AddressIssue
      [] sig = "items" -> ItemsIssue [] sig = "price" -> PriceIssue
      [] sig = "date" -> DateIssue [] sig = "signatory" -> SignatoryIssue
      [] sig = "reference" -> ReferenceIssue

\* the signals among sigs that fired for one comparison pair, in order
RECURSIVE FiredAmong(_, _, _, _, _)
FiredAmong(sigs, cfg, new_doc, raw, row) ==
    IF sigs = <<>> THEN <<>>
    ELSE IF SignalFired(Head(sigs), cfg, new_doc, raw, row)
         THEN <<Head(sigs)>> \o FiredAmong(Tail(sigs), cfg, new_doc, raw, row)
         ELSE FiredAmong(Tail(sigs), cfg, new_doc, raw, row)

FiredSignals(cfg, new_doc, raw, row) == FiredAmong(Signals, cfg, new_doc, raw, row)

\* the score and the issue list the fired signals add up to
RECURSIVE WeightOf(_)
WeightOf(fired) ==
    IF fired = <<>> THEN 0 ELSE SignalWeight(Head(fired)) + WeightOf(Tail(fired))

RECURSIVE IssuesOf(_)
IssuesOf(fired) ==
    IF fired = <<>> THEN <<>>
    ELSE <<SignalIssue(Head(fired))>> \o IssuesOf(Tail(fired))

\* the flags of out that refer to the stored document id
FlagsFor(out, id) == {k \in 1..Len(out) : out[k].existing_doc_id = id}

\* C8: a flag is emitted for a stored document exactly when at least one
\* signal fired for it; its risk_score is the sum of the weights of the
\* fired signals, its issues are one entry per fired signal in evaluation
\* order; no stored document gets more than one flag.
C8_FlagIffSignalFired ==
    DetectReturned =>
        /\ Len(ret.value) <= Len(call.existing_docs)
        /\ \A i \in 1..Len(call.existing_docs) :
            LET stored == call.existing_docs[i]
                hits == FiredSignals(config, call.new_doc, call.raw_text, stored)
                mine == FlagsFor(ret.value, stored.id)
            IN  /\ Cardinality(mine) = (IF hits # <<>> THEN 1 ELSE 0)
                /\ \A k \in mine :
                    /\ ret.value[k].risk_score = WeightOf(hits)
                    /\ ret.value[k].issues = IssuesOf(hits)

\* a scoring run that flagged one stored document with at least four
\* issues and left another one unflagged
C8_Witness ==
    /\ DetectReturned
    /\ Len(ret.value) < Len(call.existing_docs)
    /\ \E k \in 1..Len(ret.value) : Len(ret.value[k].issues) >= 4

\* C9: the returned flags are in non-increasing order of risk_score, flags of
\* equal risk_score keep the order their stored documents had in the
\* comparison set, and the result is a permutation of the emitted flags.
C9_SortedStable ==
    DetectReturned =>
        LET out == ret.value
            emitted == EmitFlags(config, call.new_doc, call.raw_text,
                                 call.existing_docs)
            \* position of a flag's stored document in the comparison set
            Pos(f) == CHOOSE i \in 1..Len(call.existing_docs) :
                          call.existing_docs[i].id = f.existing_doc_id
        IN  /\ Len(out) = Len(emitted)
            /\ Range(out) = Range(emitted)
            /\ \A i, j \in 1..Len(out) :
                  i < j => /\ out[i].risk_score >= out[j].risk_score
                           /\ out[i].risk_score = out[j].risk_score
                                 => Pos(out[i]) < Pos(out[j])

\* two flags of equal score were returned
C9_Witness ==
    /\ DetectReturned
    /\ Len(ret.value) = 2
    /\ ret.value[1].risk_score = ret.value[2].risk_score

-----------------------------------------------------------------------------
(* Claims about _assess_overall_risk (SpecRisk) *)

AssessReturned == ret.returned /\ call.fn = "_assess_overall_risk"

\* C10: for a non-empty flag sequence the verdict's score is the largest
\* risk_score and its level is LOW below 40, MEDIUM in [40,60), HIGH in
\* [60,80) and CRITICAL from 80 on.
C10_VerdictLevels ==
    (AssessReturned /\ call.flags # <<>>) =>
        LET scores == {call.flags[i].risk_score : i \in 1..Len(call.flags)}
            top == CHOOSE s \in scores : \A t \in scores : t <= s
        IN  /\ ret.value.score = top
            /\ top < 40 => ret.value.level = "LOW"
            /\ (40 <= top /\ top < 60) => ret.value.level = "MEDIUM"
            /\ (60 <= top /\ top < 80) => ret.value.level = "HIGH"
            /\ top >= 80 => ret.value.level = "CRITICAL"

\* the verdict of the flags scored 80 and 39: CRITICAL with score 80
C10_Witness ==
    /\ AssessReturned
    /\ Len(call.flags) = 2
    /\ call.flags[1].risk_score = 39
    /\ call.flags[2].risk_score = 80
    /\ ret.value.level = "CRITICAL"
    /\ ret.value.score = 80

-----------------------------------------------------------------------------
(* Claims about the document store under overlapping calls (Spec) *)

\* the positions of the commit log written by call p
CommitsOf(p) == {i \in 1..Len(log) : log[i].by = p}

\* the calls whose insert_document has returned
Inserted == {p \in Calls : doc_id[p] # 0}

\* C3: under any interleaving of overlapping inserts no two inserts return
\* the same id, the id an insert returns is the id of the row that this
\* insert wrote, ids increase strictly in commit order, and no insert
\* overwrites a row that exists: every committed row is still in the table.
C3_InsertIdsUnique ==
    /\ \A p, q \in Inserted : p # q => doc_id[p] # doc_id[q]
    /\ \A p \in Inserted :
          /\ Cardinality(CommitsOf(p)) = 1
          /\ \A i \in CommitsOf(p) :
                /\ log[i].row = MakeRow(doc_id[p], doc_data[p], raw_text[p])
                /\ db[i] = log[i].row
    /\ \A i, j \in 1..Len(log) : i < j => log[i].row.id < log[j].row.id
    /\ Len(db) = Len(log)
    /\ \A i \in 1..Len(log) : db[i] = log[i].row

\* the call that began second committed its insert first, and both inserts
\* have returned
C3_Witness ==
    /\ Inserted = {1, 2}
    /\ doc_id[2] < doc_id[1]

\* C4: within a call the insert commits before the comparison set is
\* fetched and the flags are computed from that fetched set: a call that
\* has not fetched holds no comparison set, a call at or past its fetch has
\* committed its own row, and the fetch a scoring uses was made after that
\* commit.
C4_InsertFetchScoreOrder ==
    \A p \in Calls :
        /\ pc[p] \in {"idle", "insert", "commit", "fetch"}
              => existing_docs[p] = <<>> /\ fetched_at[p] = 0
        /\ pc[p] \in {"idle", "insert", "commit", "fetch", "detect"}
              => result[p] = NoResult
        /\ pc[p] \in {"fetch", "detect", "done"} => CommitsOf(p) # {}
        /\ pc[p] \in {"detect", "done"}
              => \E i \in CommitsOf(p) : i <= fetched_at[p]
        /\ pc[p] = "done"
              => result[p].flags =
                    detect_fraud_indicators(config, doc_data[p], raw_text[p],
                                            existing_docs[p])

\* a call finished with flags while a later call is still before its fetch
C4_Witness ==
    /\ pc[1] = "done"
    /\ result[1].flags # <<>>
    /\ pc[2] = "fetch"

\* C5: a fetch returns only complete rows of inserts that had committed
\* when the fetch ran: never the row of an insert still in flight.
C5_FetchSeesCommittedOnly ==
    \A p \in Calls :
        \A k \in 1..Len(existing_docs[p]) :
            \E i \in 1..fetched_at[p] :
                /\ existing_docs[p][k] = log[i].row
                /\ log[i].by # 0 =>
                      log[i].row = MakeRow(doc_id[log[i].by], doc_data[log[i].by],
                                           raw_text[log[i].by])

\* a call fetched a non-empty comparison set while another call's INSERT was
\* executed and not yet committed
C5_Witness ==
    /\ pc[1] = "detect"
    /\ existing_docs[1] # <<>>
    /\ fetched_at[1] = Len(log)
    /\ pending[2] # NoRow

\* C6: the store is append-only: every step keeps each stored row at its
\* place with the same field values and adds at most one row; the fetch
\* and the scoring step leave the table as it is; a call that has returned
\* a result added exactly one row, whatever its flags.
C6_AppendOnly ==
    [][ /\ Len(db') >= Len(db)
        /\ Len(db') <= Len(db) + 1
        /\ \A i \in 1..Len(db) : db'[i] = db[i]
        /\ \A p \in Calls :
              (pc[p] \in {"fetch", "detect"} /\ pc'[p] # pc[p]) => db' = db
        /\ \A p \in Calls :
              pc'[p] = "done" =>
                 Cardinality({i \in 1..Len(db') : db'[i].id = doc_id'[p]}) = 1
        /\ Len(db') = Cardinality(CommitsOf(0)') + Cardinality(Inserted')
      ]_vars

\* two calls returned, one with flags and one without, and the table holds
\* the row of each beside the row it held before
C6_Witness ==
    /\ pc[1] = "done" /\ pc[2] = "done"
    /\ result[1].flags = <<>>
    /\ result[2].flags # <<>>
    /\ Len(db) = 3

\* the rows committed when call p fetched
CommittedAtFetch(p) == {log[i].row : i \in 1..fetched_at[p]}

\* C7: the comparison set a call fetched is exactly the committed rows of
\* the call's document type other than the call's own row, each once; no
\* flag of the result refers to the call's own id or to another type.
C7_FetchExactlySameTypeOthers ==
    \A p \in Calls :
        /\ pc[p] \in {"detect", "done"} =>
              /\ Range(existing_docs[p]) =
                    {r \in CommittedAtFetch(p) :
                        /\ r.document_type = doc_data[p].document_type
                        /\ r.id # doc_id[p]}
              /\ Cardinality(Range(existing_docs[p])) = Len(existing_docs[p])
        /\ pc[p] = "done" =>
              \A k \in 1..Len(result[p].flags) :
                  /\ result[p].flags[k].existing_doc_id # doc_id[p]
                  /\ result[p].flags[k].existing_type = doc_data[p].document_type

\* a call returned a flag while the table held, when it fetched, its own
\* row and a row of the other type
C7_Witness ==
    \E p \in Calls :
        /\ pc[p] = "done"
        /\ result[p].flags # <<>>
        /\ \E r \in CommittedAtFetch(p) :
              r.document_type # doc_data[p].document_type
        /\ \E r \in CommittedAtFetch(p) : r.id = doc_id[p]

-----------------------------------------------------------------------------
(* Claims about calls made one after the other (SpecSeq) *)

\* the second of two returned calls flagged the row of the first for very
\* high text similarity, the finding adding 50 to the flag's score
FlaggedAsCopy(first, second) ==
    /\ doc_id[first] # doc_id[second]
    /\ \E k \in 1..Len(existing_docs[second]) :
          /\ existing_docs[second][k].id = doc_id[first]
          /\ existing_docs[second][k] =
                MakeRow(doc_id[first], doc_data[first], raw_text[first])
    /\ \E k \in 1..Len(result[second].flags) :
          LET flag == result[second].flags[k]
              others == FiredAmong(Tail(Signals), config, doc_data[second],
                                   raw_text[second],
                                   MakeRow(doc_id[first], doc_data[first],
                                           raw_text[first]))
          IN  /\ flag.existing_doc_id = doc_id[first]
              /\ flag.issues # <<>>
              /\ flag.issues[1] = "Very high text similarity"
              /\ flag.risk_score = 50 + WeightOf(others)

\* two calls that returned a result for the same raw text
SameTextTwice(first, second) ==
    /\ first < second
    /\ pc[first] = "done"
    /\ pc[second] = "done"
    /\ raw_text[first] = raw_text[second]

\* C2 as stated: whenever the same raw text went through two sequential
\* calls, the ids differ, the second call's comparison set holds the row of
\* the first, and the second call flags the first id for very high text
\* similarity with weight 50.
C2_SameTextTwiceFlagged ==
    \A first, second \in Calls :
        SameTextTwice(first, second) => FlaggedAsCopy(first, second)

\* C2, amended: the same holds when both calls resolve the text to the same
\* document type and the configured text-similarity threshold is below 1.0.
C2_SameTextSameTypeFlagged ==
    \A first, second \in Calls :
        ( /\ SameTextTwice(first, second)
          /\ doc_data[first].document_type = doc_data[second].document_type
          /\ config.text_similarity_threshold < 100 )
            => FlaggedAsCopy(first, second)

\* the same text was ingested twice as the same type under a threshold below
\* 1.0 and the second call flagged the first
C2_Witness ==
    /\ SameTextTwice(1, 2)
    /\ doc_data[1].document_type = doc_data[2].document_type
    /\ config.text_similarity_threshold < 100
    /\ raw_text[1] # <<>>
    /\ FlaggedAsCopy(1, 2)

-----------------------------------------------------------------------------
(* Claims about the result of a call (Spec) and the verdict (SpecRisk) *)

\* the rows of call p's document type, other than its own, that were
\* committed when p fetched
OthersOfType(p) ==
    {r \in CommittedAtFetch(p) :
        r.document_type = doc_data[p].document_type /\ r.id # doc_id[p]}

\* C11: a call that returns while the store held, when it fetched, no other
\* document of its type returns an empty flag sequence and a verdict with
\* level LOW and score 0.
C11_FirstOfTypeNoFlags ==
    \A p \in Calls :
        (pc[p] = "done" /\ OthersOfType(p) = {}) =>
            /\ result[p].flags = <<>>
            /\ result[p].risk_assessment.level = "LOW"
            /\ result[p].risk_assessment.score = 0

\* a quotation was ingested into a store that held a contract only, and a
\* first document into an empty store
C11_Witness ==
    \E p \in Calls :
        /\ pc[p] = "done"
        /\ OthersOfType(p) = {}
        /\ \/ Len(db) = 1
           \/ /\ doc_data[p].document_type = "quotation"
              /\ \E r \in CommittedAtFetch(p) : r.document_type = "contract"

\* C12: the verdict of every scoring run, the run with an empty flag
\* sequence included, reports the count of flagged documents, and that count
\* is the number of flags.
C12_VerdictCountsFlags ==
    AssessReturned =>
        /\ "flagged_documents" \in DOMAIN ret.value
        /\ ret.value.flagged_documents = Len(call.flags)

-----------------------------------------------------------------------------
(* Claims about the comparison functions (SpecSim) *)

ItemsReturned == ret.returned /\ call.fn = "items_similarity"

\* the set of (lower-cased name, quantity) pairs of an item list
PairSet(items) == {<<LowerStr(items[i].name), items[i].qty>> : i \in 1..Len(items)}

\* a fraction equal to the fraction num / den
Equals(fraction, num, den) == fraction.num * den = num * fraction.den

\* C13: item-set similarity is the Jaccard index of the two sets of
\* (lower-cased name, quantity) pairs; it is 0 when exactly one of the sets
\* is empty and 1 when both are empty.
C13_JaccardOneWhenBothEmpty ==
    ItemsReturned =>
        LET set1 == PairSet(call.items1)
            set2 == PairSet(call.items2)
        IN  IF set1 = {} /\ set2 = {} THEN Equals(ret.value, 1, 1)
            ELSE Equals(ret.value, Cardinality(set1 \cap set2),
                        Cardinality(set1 \cup set2))

\* C14: item-set similarity is symmetric: the value returned for (A, B) is
\* the value of items_similarity(B, A).
C14_ItemsSymmetric ==
    ItemsReturned =>
        LET back == items_similarity(call.items2, call.items1)
        IN  Equals(ret.value, back.num, back.den)

\* two lists of different lengths, the longer one naming one item twice in
\* different spellings, that were found similar
C14_Witness ==
    /\ ItemsReturned
    /\ Len(call.items1) # Len(call.items2)
    /\ Cardinality(PairSet(call.items1)) < Len(call.items1)
    /\ call.items1[1].name # call.items1[2].name
    /\ ret.value.num > 0

PriceReturned == ret.returned /\ call.fn = "price_difference"

\* the value (hi - lo) / den of a returned relative difference
IsZero(value) == FloatEq(value.hi, value.lo)
IsOne(value) == value.lo.m = 0 /\ FloatEq(value.hi, value.den)
BelowOne(value) ==
    /\ ~FloatLess(value.den, value.hi)
    /\ value.lo.m # 0 \/ FloatLess(value.hi, value.den)

Larger(total1, total2) == IF FloatLess(total1, total2) THEN total2 ELSE total1
Smaller(total1, total2) == IF FloatLess(total1, total2) THEN total1 ELSE total2

\* what C15 says of the three special cases and of the order of the
\* arguments
PriceSpecialCases ==
    /\ (call.total1.m = 0 /\ call.total2.m = 0) => IsZero(ret.value)
    /\ (call.total1.m = 0) # (call.total2.m = 0) => IsOne(ret.value)
    /\ (FloatEq(call.total1, call.total2) /\ call.total1.m # 0)
          => IsZero(ret.value)
    /\ ret.value = price_difference(call.total2, call.total1)

\* two different totals, neither of them 0
PriceGeneralCase ==
    /\ call.total1.m # 0
    /\ call.total2.m # 0
    /\ ~FloatEq(call.total1, call.total2)

\* C15 as stated: the price divergence is 0 for equal totals (0 and 0
\* included), 1 when exactly one total is 0, and otherwise |t1-t2| over the
\* larger total, a value in [0,1); it is the same for (t1,t2) and (t2,t1).
C15_PriceBelowOne ==
    PriceReturned =>
        /\ PriceSpecialCases
        /\ PriceGeneralCase =>
            /\ FloatEq(ret.value.den, Larger(call.total1, call.total2))
            /\ BelowOne(ret.value)

\* C15, amended: in the general case the value is in (0,1]; it is below 1
\* whenever the larger total is less than 2^52 times the smaller one, and
\* then it is |t1-t2| over the larger total.
C15_PriceAtMostOne ==
    PriceReturned =>
        /\ PriceSpecialCases
        /\ PriceGeneralCase =>
            LET big == Larger(call.total1, call.total2)
                small == Smaller(call.total1, call.total2)
            IN  /\ FloatEq(ret.value.den, big)
                /\ ~IsZero(ret.value)
                /\ BelowOne(ret.value) \/ IsOne(ret.value)
                /\ Top(big) - Top(small) < 53 =>
                      /\ BelowOne(ret.value)
                      /\ FloatEq(ret.value.hi, big)
                      /\ FloatEq(ret.value.lo, small)

\* the divergence of two different non-zero totals came out as 1
C15_Witness ==
    /\ PriceReturned
    /\ PriceGeneralCase
    /\ IsOne(ret.value)

-----------------------------------------------------------------------------
(* Claims about single signals of detect_fraud_indicators (SpecScore) *)

\* the call compares a new quotation (total 10000, items [(Steel Beam, 5)],
\* reference QT-001) under the default thresholds with one stored quotation
\* of another vendor (total 10500, same items, same reference), and neither
\* the text, the postal code, the date nor the signatory signal fires
Scenario ==
    /\ call.fn = "detect_fraud_indicators"
    /\ config = DefaultConfig
    /\ Len(call.existing_docs) = 1
    /\ LET stored == call.existing_docs[1]
       IN  /\ call.new_doc.document_type = "quotation"
           /\ stored.document_type = "quotation"
           /\ call.new_doc.vendor # stored.vendor
           /\ call.new_doc.total = 1000000
           /\ stored.total = 1050000
           /\ stored.items = json_dumps(call.new_doc.items)
           /\ Len(call.new_doc.items) = 1
           /\ call.new_doc.items[1].name = "Steel Beam"
           /\ call.new_doc.items[1].qty = 5
           /\ call.new_doc.reference_number = "QT-001"
           /\ stored.reference_number = "QT-001"
           /\ \A sig \in {"text", "postal", "date", "signatory"} :
                 ~SignalFired(sig, config, call.new_doc, call.raw_text, stored)

\* C16: in the scenario the run returns exactly one flag; its issues are
\* the item-similarity and the reference-number finding and not the
\* price-divergence finding, its risk_score is 30 + 35 = 65, and the verdict
\* over the returned flags has level HIGH.
C16_ScenarioScores65 ==
    (DetectReturned /\ Scenario) =>
        /\ Len(ret.value) = 1
        /\ ret.value[1].existing_doc_id = call.existing_docs[1].id
        /\ ret.value[1].issues = <<ItemsIssue, ReferenceIssue>>
        /\ ret.value[1].risk_score = 65
        /\ assess_overall_risk(ret.value).level = "HIGH"
        /\ assess_overall_risk(ret.value).score = 65

C16_Witness == DetectReturned /\ Scenario

\* the flags returned for the stored document at position i carry no
\* finding of signal sig, and their score is the sum of the weights of the
\* other signals that fired
NoFinding(sig, i) ==
    LET stored == call.existing_docs[i]
        others == FiredAmong(SelectSeq(Signals, LAMBDA one : one # sig), config,
                             call.new_doc, call.raw_text, stored)
    IN  \A k \in FlagsFor(ret.value, stored.id) :
            /\ \A n \in 1..Len(ret.value[k].issues) :
                  ret.value[k].issues[n] # SignalIssue(sig)
            /\ ret.value[k].risk_score = WeightOf(others)

Unreadable(date) == date.fmt \in {"none", "raw"}

Undecodable(i) == call.existing_docs[i].items.kind = "malformed"

\* the signals that do not read the items column
ItemFreeSignals == <<"text", "postal", "date", "signatory", "reference">>

\* the stored document at position i has one flag with the findings of the
\* signals fired, and no flag if fired is empty
FlaggedWith(i, fired) ==
    LET mine == FlagsFor(ret.value, call.existing_docs[i].id)
    IN  /\ Cardinality(mine) = (IF fired # <<>> THEN 1 ELSE 0)
        /\ \A k \in mine : /\ ret.value[k].issues = IssuesOf(fired)
                           /\ ret.value[k].risk_score = WeightOf(fired)

\* C19: a scoring run over a comparison set with an undecodable items column
\* returns; the record with that column gets neither the item-similarity nor
\* the price-divergence finding and is flagged with exactly the other
\* signals that fire for it, and every other record is flagged with all the
\* signals that fire for it.
C19_UndecodableItemsDegrade ==
    (DetectReturned /\ \E i \in 1..Len(call.existing_docs) : Undecodable(i)) =>
        \A i \in 1..Len(call.existing_docs) :
            IF Undecodable(i)
            THEN /\ NoFinding("items", i)
                 /\ NoFinding("price", i)
                 /\ FlaggedWith(i, FiredAmong(ItemFreeSignals, config, call.new_doc,
                                              call.raw_text, call.existing_docs[i]))
            ELSE FlaggedWith(i, FiredSignals(config, call.new_doc, call.raw_text,
                                             call.existing_docs[i]))

\* a record with an undecodable items column was flagged, and next to it a
\* record with the item-similarity finding
C19_Witness ==
    /\ DetectReturned
    /\ \E i, j \in 1..Len(call.existing_docs) :
        /\ Undecodable(i)
        /\ call.existing_docs[i].items.value = call.new_doc.items
        /\ call.new_doc.items # <<>>
        /\ FlagsFor(ret.value, call.existing_docs[i].id) # {}
        /\ ~Undecodable(j)
        /\ \E k \in FlagsFor(ret.value, call.existing_docs[j].id) :
              \E n \in 1..Len(ret.value[k].issues) :
                  ret.value[k].issues[n] = ItemsIssue

\* the stored document at position i has a flag with the finding of signal
\* sig, whose score is the weight of sig on top of the other signals fired
HasFinding(sig, i) ==
    LET stored == call.existing_docs[i]
        others == FiredAmong(SelectSeq(Signals, LAMBDA one : one # sig), config,
                             call.new_doc, call.raw_text, stored)
    IN  \E k \in FlagsFor(ret.value, stored.id) :
            /\ \E n \in 1..Len(ret.value[k].issues) :
                  ret.value[k].issues[n] = SignalIssue(sig)
            /\ ret.value[k].risk_score = WeightOf(others) + SignalWeight(sig)

\* the signatory strings of the pair are exactly equal and the vendors differ
SameSignerOtherVendor(i) ==
    /\ call.new_doc.signatory = call.existing_docs[i].signatory
    /\ call.new_doc.vendor # call.existing_docs[i].vendor

\* C20 as stated: with exact-match mode enabled, every pair with exactly
\* equal signatory strings and different vendors gets the signatory finding
\* and its weight 40; with the mode disabled, with different signatories or
\* with equal vendors, the pair does not get it.
C20_EqualSignatoryFires ==
    DetectReturned =>
        \A i \in 1..Len(call.existing_docs) :
            IF config.signatory_exact_match /\ SameSignerOtherVendor(i)
            THEN HasFinding("signatory", i)
            ELSE NoFinding("signatory", i)

\* C20, amended: the pair gets the finding and its weight 40 exactly when
\* the mode is enabled, the signatory strings are equal and not empty, and
\* the vendors differ.
C20_NamedSignatoryFires ==
    DetectReturned =>
        \A i \in 1..Len(call.existing_docs) :
            IF /\ config.signatory_exact_match
               /\ SameSignerOtherVendor(i)
               /\ call.new_doc.signatory # ""
            THEN HasFinding("signatory", i)
            ELSE NoFinding("signatory", i)

\* a pair of two vendors with the same named signatory got the finding
C20_Witness ==
    /\ DetectReturned
    /\ \E i \in 1..Len(call.existing_docs) :
        /\ config.signatory_exact_match
        /\ SameSignerOtherVendor(i)
        /\ call.new_doc.signatory # ""
        /\ HasFinding("signatory", i)

-----------------------------------------------------------------------------
(* Claims about failed calls (Spec) *)

\* the declared types for which no parser is registered
UnregisteredTypes == DeclaredTypes \ (RegisteredTypes \cup {None})

\* the errors raised by lines 359-360, before insert_document is called
EarlyErrors == {"extraction", "ValueError: no parser"}

FailedEarly(p) == pc[p] = "failed" /\ result[p].err \in EarlyErrors

\* C18: parse_document with a declared type that has no registered parser
\* raises its error and returns no record; the step in which a call fails
\* this way, or fails at text extraction, leaves the store (committed rows,
\* uncommitted rows, rowid counter) as it was, and such a call never inserts.
C18_FailedCallLeavesStore ==
    /\ [](\A pdf_path \in PdfPaths, document_type \in UnregisteredTypes :
            extract_text_from_pdf(pdf_path).ok =>
                parse_document(extract_text_from_pdf(pdf_path).text, document_type)
                    = Raised("ValueError: no parser"))
    /\ [](\A p \in Calls :
            FailedEarly(p) => /\ doc_id[p] = 0
                              /\ pending[p] = NoRow
                              /\ \A i \in 1..Len(log) : log[i].by # p)
    /\ [][\A p \in Calls :
            (pc[p] = "idle" /\ pc'[p] = "failed") =>
                /\ result'[p].err \in EarlyErrors
                /\ db' = db
                /\ pending' = pending
                /\ sqlite_seq' = sqlite_seq]_vars

\* a call failed for want of a parser after another call had stored its
\* document, and the store holds that document only
C18_Witness ==
    \E p, q \in Calls :
        /\ pc[p] = "failed"
        /\ result[p].err = "ValueError: no parser"
        /\ doc_id[q] # 0
        /\ Len(db) = 1

-----------------------------------------------------------------------------
(* Claims about the parsers' defaults (SpecParse) *)

\* the parser variant that parse_document used for the call
VariantOf(text, document_type) ==
    IF document_type = None THEN detect_document_type(text) ELSE document_type

\* some line of text matches the variant's vendor pattern / client pattern
VendorMatches(text, variant) ==
    \E i \in 1..Len(text) :
        IF variant = "quotation" THEN MatchesQVendor(text[i])
        ELSE MatchesCVendor(text[i])

ClientMatches(text, variant) ==
    \E i \in 1..Len(text) :
        IF variant = "quotation" THEN MatchesQClient(text[i])
        ELSE MatchesCClient(text[i])

\* C21: every record a registered parser variant produces has a vendor and a
\* client that are strings, never None; the vendor is "Unknown Vendor" when
\* the variant's vendor pattern matches no line, and the client is "Unknown
\* Client" when its client pattern matches no line.
C21_SentinelsForMissingParties ==
    (ParseReturned /\ ret.value.ok) =>
        LET variant == VariantOf(call.text, call.document_type)
            doc == ret.value.doc
        IN  /\ doc.vendor # None
            /\ doc.client # None
            /\ ~VendorMatches(call.text, variant) => doc.vendor = "Unknown Vendor"
            /\ ~ClientMatches(call.text, variant) => doc.client = "Unknown Client"

-----------------------------------------------------------------------------
(* Claims about the dependence between signals (SpecScore) *)

\* flag carries the finding of signal sig
Carries(flag, sig) ==
    \E n \in 1..Len(flag.issues) : flag.issues[n] = SignalIssue(sig)

\* the signals other than the price divergence
FreeSignals == <<"text", "postal", "items", "date", "signatory", "reference">>

\* C22: no flag carries the price-divergence finding without the
\* item-similarity finding, whatever the totals; each of the other six
\* signals is found in the flag of a pair exactly when its own test holds for
\* the pair, whichever other signals fired, and a pair without a flag passes
\* none of these tests.
C22_PriceOnlyWithItems ==
    DetectReturned =>
        \A i \in 1..Len(call.existing_docs) :
            LET stored == call.existing_docs[i]
                mine == FlagsFor(ret.value, stored.id)
            IN  /\ \A k \in mine :
                    /\ Carries(ret.value[k], "price") => Carries(ret.value[k], "items")
                    /\ \A n \in 1..Len(FreeSignals) :
                          Carries(ret.value[k], FreeSignals[n])
                            <=> SignalFired(FreeSignals[n], config, call.new_doc,
                                            call.raw_text, stored)
                /\ mine = {} =>
                      \A n \in 1..Len(FreeSignals) :
                          ~SignalFired(FreeSignals[n], config, call.new_doc,
                                       call.raw_text, stored)

\* one stored document was flagged whose total diverges from the new one's
\* beyond the threshold while its items are not similar, and another one
\* was flagged with both findings
C22_Witness ==
    /\ DetectReturned
    /\ \E i, j \in 1..Len(call.existing_docs) :
        /\ PriceExceeds(config, call.new_doc, call.existing_docs[i])
        /\ ~ItemsFires(config, call.new_doc, call.existing_docs[i])
        /\ FlagsFor(ret.value, call.existing_docs[i].id) # {}
        /\ \E k \in FlagsFor(ret.value, call.existing_docs[j].id) :
              Carries(ret.value[k], "price") /\ Carries(ret.value[k], "items")

-----------------------------------------------------------------------------
(* Claims about two calls for documents of one type (Spec) *)

\* the comparison set call p fetched holds the row call q committed
SeesRecordOf(p, q) ==
    \E n \in 1..Len(existing_docs[p]) :
        /\ existing_docs[p][n].id = doc_id[q]
        /\ existing_docs[p][n] = MakeRow(doc_id[q], doc_data[q], raw_text[q])

\* call p's insert committed before call q's
CommittedBefore(p, q) ==
    \E i \in CommitsOf(p), j \in CommitsOf(q) : i < j

SameType(p, q) == doc_data[p].document_type = doc_data[q].document_type

\* C23: of two calls for documents of the same type, the one whose insert
\* committed second has the other's row in its comparison set once it has
\* fetched; so when both calls have completed, at least one of them was
\* scored against the other's record.
C23_SecondCommitterSeesFirst ==
    \A p, q \in Calls :
        (p # q /\ doc_id[p] # 0 /\ doc_id[q] # 0 /\ SameType(p, q)) =>
            /\ (CommittedBefore(p, q) /\ pc[q] \in {"detect", "done"})
                  => SeesRecordOf(q, p)
            /\ (pc[p] = "done" /\ pc[q] = "done")
                  => /\ result[p].ok /\ result[q].ok
                     /\ SeesRecordOf(p, q) \/ SeesRecordOf(q, p)

\* both calls completed for documents of one type; the call that began
\* second committed first and fetched before the other's commit, so only
\* the first call was compared with the other's record
C23_Witness ==
    /\ pc[1] = "done"
    /\ pc[2] = "done"
    /\ SameType(1, 2)
    /\ CommittedBefore(2, 1)
    /\ SeesRecordOf(1, 2)
    /\ ~SeesRecordOf(2, 1)

====
